---- MODULE Spec2Model ----
(***************************************************************************)
(* Model of src/main.py: the POST /transcript handler (video id            *)
(* extraction, the ordered session configurations, the page-scrape         *)
(* strategy with caption-track selection, the timedtext normalizers and    *)
(* the terminal status decision).                                          *)
(*                                                                         *)
(* Python strings are TLA+ strings; None is the value None below.  A       *)
(* response body whose decoding is done by a library (json.loads,          *)
(* ET.fromstring) is a record that carries its format and its decoded      *)
(* content.  Seconds are kept in hundredths (the code rounds to 2          *)
(* decimals).                                                              *)
(***************************************************************************)
EXTENDS Integers, Sequences, FiniteSets, TLC

VARIABLES
    SCRAPER_API_KEY,   \* main.py:23, read-only configuration
    PROXY_URL,         \* main.py:24, read-only configuration
    req,               \* TranscriptRequest: [url, language]
    pc,                \* position of the handler
    video_id,          \* get_transcript: video_id
    active_configs,    \* get_transcript: active_configs
    idx,               \* position of "for cfg in active_configs" (1-based)
    last_error,        \* get_transcript: last_error
    session,           \* the session of the attempt in progress
    caption_tracks,    \* fetch_transcript_from_youtube: caption_tracks
    best_track,        \* fetch_transcript_from_youtube: best_track
    best_index,        \* index in caption_tracks of the track best_track came from
    response,          \* the HTTP response of the handler
    attempts,          \* per strategy: label, succeeded, error (the log lines 300/311)
    calls,             \* network calls made, in order: [label, proxies, what, video_id]
    fetched,           \* the body handed to parse_timedtext_json in the attempt in progress
    chunks,            \* translate_text: chunks
    translated_chunks, \* translate_text: translated_chunks
    handlers           \* the frames of the POST /transcript requests in flight at once

vars == << SCRAPER_API_KEY, PROXY_URL, req, pc, video_id, active_configs, idx,
           last_error, session, caption_tracks, best_track, best_index,
           response, attempts, calls, fetched, chunks, translated_chunks, handlers >>

None == "<None>"

-----------------------------------------------------------------------------
(* Python string helpers *)

Char(s, i) == SubSeq(s, i, i)

UpperLetters == "ABCDEFGHIJKLMNOPQRSTUVWXYZ"
LowerLetters == "abcdefghijklmnopqrstuvwxyz"
Digits == "0123456789"

CharsOf(alphabet) == { Char(alphabet, i) : i \in 1..Len(alphabet) }

UpperSet == CharsOf(UpperLetters)
IdCharSet == CharsOf(UpperLetters) \cup CharsOf(LowerLetters) \cup CharsOf(Digits) \cup {"_", "-"}

LowerChar(c) ==
    IF c \in UpperSet
    THEN Char(LowerLetters, CHOOSE i \in 1..Len(UpperLetters) : Char(UpperLetters, i) = c)
    ELSE c

RECURSIVE Lower(_)
Lower(s) == IF s = "" THEN "" ELSE LowerChar(Char(s, 1)) \o Lower(SubSeq(s, 2, Len(s)))

\* Python "w in s"
Contains(s, w) == \E i \in 1..(Len(s) - Len(w) + 1) : SubSeq(s, i, i + Len(w) - 1) = w

\* Python s.startswith(w)
StartsWith(s, w) == Len(w) <= Len(s) /\ SubSeq(s, 1, Len(w)) = w

IsSpace(c) == c \in {" ", "\n", "\t", "\r"}

RECURSIVE LStrip(_)
LStrip(s) == IF s # "" /\ IsSpace(Char(s, 1)) THEN LStrip(SubSeq(s, 2, Len(s))) ELSE s

RECURSIVE RStrip(_)
RStrip(s) == IF s # "" /\ IsSpace(Char(s, Len(s))) THEN RStrip(SubSeq(s, 1, Len(s) - 1)) ELSE s

\* Python s.strip()
Strip(s) == RStrip(LStrip(s))

\* Python sep.join(parts)
RECURSIVE Join(_, _)
Join(parts, sep) ==
    IF parts = << >> THEN ""
    ELSE IF Len(parts) = 1 THEN parts[1]
    ELSE parts[1] \o sep \o Join(Tail(parts), sep)

\* Python s.replace(old, new), old a single character
RECURSIVE ReplaceChar(_, _, _)
ReplaceChar(s, old, new) ==
    IF s = "" THEN ""
    ELSE (IF Char(s, 1) = old THEN new ELSE Char(s, 1)) \o ReplaceChar(SubSeq(s, 2, Len(s)), old, new)

-----------------------------------------------------------------------------
(* extract_video_id, main.py:26-39 *)

IdLen == 11

\* the regex class [a-zA-Z0-9_-]
IsIdChar(c) == c \in IdCharSet

AllIdChars(s) == \A i \in 1..Len(s) : IsIdChar(Char(s, i))

\* the literal prefixes of the patterns, in the order of the list
patterns == << "v=", "youtu.be/", "shorts/", "embed/" >>

\* positions where prefix ([a-zA-Z0-9_-]{11}) matches in url
MatchPositions(prefix, url) ==
    { i \in 1..Len(url) :
        /\ i + Len(prefix) + IdLen - 1 <= Len(url)
        /\ SubSeq(url, i, i + Len(prefix) - 1) = prefix
        /\ AllIdChars(SubSeq(url, i + Len(prefix), i + Len(prefix) + IdLen - 1)) }

Min(S) == CHOOSE x \in S : \A y \in S : x <= y

\* re.search(pattern, url).group(1): the leftmost match
SearchGroup(prefix, url) ==
    LET i == Min(MatchPositions(prefix, url))
    IN  SubSeq(url, i + Len(prefix), i + Len(prefix) + IdLen - 1)

\* re.match(r'^[a-zA-Z0-9_-]{11}$', url.strip())
IsBareId(url) == Len(Strip(url)) = IdLen /\ AllIdChars(Strip(url))

extract_video_id(url) ==
    LET hits == { k \in 1..Len(patterns) : MatchPositions(patterns[k], url) # {} }
    IN  IF hits # {} THEN SearchGroup(patterns[Min(hits)], url)
        ELSE IF IsBareId(url) THEN Strip(url)
        ELSE None

-----------------------------------------------------------------------------
(* format_time, main.py:41-48.  The argument is the offset in          *)
(* milliseconds; int(seconds) is ms \div 1000.                          *)

Pad2(n) == IF n < 10 THEN "0" \o ToString(n) ELSE ToString(n)

format_time(ms) ==
    LET s   == ms \div 1000
        h   == s \div 3600
        m   == (s % 3600) \div 60
        sec == s % 60
    IN  IF h > 0 THEN ToString(h) \o ":" \o Pad2(m) \o ":" \o Pad2(sec)
        ELSE ToString(m) \o ":" \o Pad2(sec)

\* round(ms / 1000, 2), in hundredths of a second (inputs avoid the ties ms % 10 = 5)
Round2(ms) == (ms + 5) \div 10

-----------------------------------------------------------------------------
(* html.unescape and re.sub(r'<[^>]+>', '', text) *)

Entities == << <<"&amp;", "&">>, <<"&lt;", "<">>, <<"&gt;", ">">>,
               <<"&quot;", "\"">>, <<"&#39;", "'">> >>

RECURSIVE Unescape(_)
Unescape(s) ==
    IF s = "" THEN ""
    ELSE LET hit == { k \in 1..Len(Entities) : StartsWith(s, Entities[k][1]) }
         IN  IF hit # {}
             THEN LET e == Entities[Min(hit)]
                  IN  e[2] \o Unescape(SubSeq(s, Len(e[1]) + 1, Len(s)))
             ELSE Char(s, 1) \o Unescape(SubSeq(s, 2, Len(s)))

RECURSIVE RemoveTags(_)
RemoveTags(s) ==
    IF s = "" THEN ""
    ELSE IF Char(s, 1) = "<"
         THEN LET closes == { j \in 2..Len(s) : Char(s, j) = ">" }
              IN  IF closes # {} /\ Min(closes) >= 3
                  THEN RemoveTags(SubSeq(s, Min(closes) + 1, Len(s)))
                  ELSE "<" \o RemoveTags(SubSeq(s, 2, Len(s)))
         ELSE Char(s, 1) \o RemoveTags(SubSeq(s, 2, Len(s)))

-----------------------------------------------------------------------------
(* The timedtext normalizers, main.py:161-234.                             *)
(* A body is [fmt, events, cues]: fmt "json3" is a JSON object (events its *)
(* "events" list), "json_list" is valid JSON that is no object, "xml" is   *)
(* a well-formed XML document (cues its <text> elements), "garbage" is     *)
(* neither and "empty" is a body of whitespace only.                       *)

Return(lines, full_text) == [ok |-> TRUE, lines |-> lines, full_text |-> full_text, error |-> ""]
Raise(msg) == [ok |-> FALSE, lines |-> << >>, full_text |-> "", error |-> msg]

\* main.py:174-184: the text of one JSON3 event
EventText(event) ==
    LET keep(utf8) == utf8 # "" /\ utf8 # "\n"
        text_parts == SelectSeq(event.segs, keep)
    IN  Strip(ReplaceChar(Unescape(Strip(Join(text_parts, " "))), "\n", " "))

\* main.py:186-195
JsonLine(event) ==
    [ text           |-> EventText(event),
      start          |-> Round2(event.tStartMs),
      duration       |-> Round2(event.dDurationMs),
      formatted_time |-> format_time(event.tStartMs) ]

\* main.py:168-195 as if each line were put in front of the ones before it
RECURSIVE JsonLinesNewestFirst(_)
JsonLinesNewestFirst(events) ==
    IF events = << >> THEN << >>
    ELSE IF EventText(Head(events)) # ""
         THEN JsonLinesNewestFirst(Tail(events)) \o << JsonLine(Head(events)) >>
         ELSE JsonLinesNewestFirst(Tail(events))

\* main.py:168-195
RECURSIVE JsonLines(_)
JsonLines(events) ==
    IF events = << >> THEN << >>
    ELSE IF EventText(Head(events)) # ""
         THEN << JsonLine(Head(events)) >> \o JsonLines(Tail(events))
         ELSE JsonLines(Tail(events))

\* main.py:214-215
CueText(cue) == RemoveTags(Strip(Unescape(IF cue.text = None THEN "" ELSE cue.text)))

\* main.py:219-226
XmlLine(cue) ==
    [ text           |-> CueText(cue),
      start          |-> Round2(cue.start),
      duration       |-> Round2(cue.dur),
      formatted_time |-> format_time(cue.start) ]

RECURSIVE XmlLines(_)
XmlLines(cues) ==
    IF cues = << >> THEN << >>
    ELSE IF CueText(Head(cues)) # ""
         THEN << XmlLine(Head(cues)) >> \o XmlLines(Tail(cues))
         ELSE XmlLines(Tail(cues))

Texts(lines) == [i \in 1..Len(lines) |-> lines[i].text]

\* main.py:197-200 and 228-231 without the "if not lines: raise"
ResultUnchecked(lines, msg) == Return(lines, Join(Texts(lines), " "))

\* main.py:197-200 and 228-231
Result(lines, msg) ==
    IF lines = << >> THEN Raise(msg) ELSE Return(lines, Join(Texts(lines), " "))

\* the message of ET.ParseError for a body that is no XML document
ParseErrorText(body) ==
    IF body.fmt = "empty" THEN "no element found: line 1, column 0"
    ELSE "syntax error: line 1, column 0"

\* main.py:206-234
parse_timedtext_xml(xml_text) ==
    IF xml_text.fmt # "xml"
    THEN Raise("XML parse failed: " \o ParseErrorText(xml_text))
    ELSE LET r == Result(XmlLines(xml_text.cues), "No lines in XML")
         IN  IF r.ok THEN r ELSE Raise("XML parse failed: " \o r.error)

\* main.py:161-204 without the "except json.JSONDecodeError" clause
parse_timedtext_json_no_fallback(json_text) ==
    IF json_text.fmt \notin {"json3", "json_list"}
    THEN Raise("Expecting value: line 1 column 1 (char 0)")
    ELSE IF json_text.fmt = "json_list"
    THEN Raise("'list' object has no attribute 'get'")
    ELSE Result(JsonLines(json_text.events), "No lines parsed from timedtext")

\* main.py:161-204
parse_timedtext_json(json_text) ==
    IF json_text.fmt \notin {"json3", "json_list"}
    THEN parse_timedtext_xml(json_text)                      \* json.JSONDecodeError
    ELSE IF json_text.fmt = "json_list"
    THEN Raise("'list' object has no attribute 'get'")       \* data.get on a list
    ELSE Result(JsonLines(json_text.events), "No lines parsed from timedtext")

-----------------------------------------------------------------------------
(* Session configurations and get_session, main.py:50-68 and 269-287 *)

Truthy(v) == v \notin {None, ""}

\* the configurations with the direct one tried first
session_configs_direct_first ==
    << [use_scraper |-> FALSE, use_proxy |-> FALSE, label |-> "Direct"],
       [use_scraper |-> TRUE,  use_proxy |-> FALSE, label |-> "ScraperAPI"],
       [use_scraper |-> FALSE, use_proxy |-> TRUE,  label |-> "Custom Proxy"] >>

\* main.py:269-276
session_configs ==
    << [use_scraper |-> TRUE,  use_proxy |-> FALSE, label |-> "ScraperAPI"],
       [use_scraper |-> FALSE, use_proxy |-> TRUE,  label |-> "Custom Proxy"],
       [use_scraper |-> FALSE, use_proxy |-> FALSE, label |-> "Direct"] >>

\* main.py:278-287 with both "continue" tests dropped
KeepAll(cfg) == TRUE

\* main.py:281-287: is cfg appended to active_configs
Keep(cfg) ==
    /\ ~(cfg.use_scraper /\ ~Truthy(SCRAPER_API_KEY))
    /\ ~(cfg.use_proxy /\ ~Truthy(PROXY_URL))

\* main.py:279-287
ActiveConfigs == SelectSeq(session_configs, Keep)

\* main.py:50-68: the proxies of the session built
get_session(use_scraper, use_proxy) ==
    IF use_scraper /\ Truthy(SCRAPER_API_KEY)
    THEN [proxies |-> "http://scraperapi:" \o SCRAPER_API_KEY \o "@proxy-server.scraperapi.com:8001",
          verify |-> FALSE]
    ELSE IF use_proxy /\ Truthy(PROXY_URL)
    THEN [proxies |-> PROXY_URL, verify |-> TRUE]
    ELSE [proxies |-> "", verify |-> TRUE]

NoSession == [proxies |-> None, verify |-> TRUE]

-----------------------------------------------------------------------------
(* Caption-track selection, main.py:118-146 *)

\* the first index of a loop that breaks at its first hit, 0 when there is none
FirstIndex(hits) == IF hits = {} THEN 0 ELSE Min(hits)

\* main.py:125
MatchesLang(track, lang) ==
    track.languageCode = lang \/ StartsWith(track.languageCode, lang)

\* main.py:135
IsEnglish(track) == Contains(track.languageCode, "en")

\* main.py:119-128: "Try requested language first"
TryRequested(tracks, lang) ==
    LET i == FirstIndex({ k \in 1..Len(tracks) : MatchesLang(tracks[k], lang) })
    IN  IF i = 0 THEN [url |-> None, index |-> 0, rule |-> 0]
        ELSE [url |-> tracks[i].baseUrl, index |-> i, rule |-> 1]

\* main.py:130-138: "Try English"
TryEnglish(tracks, sel) ==
    LET i == FirstIndex({ k \in 1..Len(tracks) : IsEnglish(tracks[k]) })
    IN  IF Truthy(sel.url) \/ i = 0 THEN sel
        ELSE [url |-> tracks[i].baseUrl, index |-> i, rule |-> 2]

\* main.py:140-143: "Use first available"
UseFirst(tracks, sel) ==
    IF ~Truthy(sel.url) /\ tracks # << >>
    THEN [url |-> tracks[1].baseUrl, index |-> 1, rule |-> 4]
    ELSE sel

\* main.py:118-143 with the requested-language loop left out
SelectTrackNoRequested(tracks, lang) ==
    UseFirst(tracks, TryEnglish(tracks, [url |-> None, index |-> 0, rule |-> 0]))

\* main.py:118-143 with the English loop left out
SelectTrackNoEnglish(tracks, lang) ==
    UseFirst(tracks, TryRequested(tracks, lang))

\* main.py:118-143
SelectTrack(tracks, lang) ==
    UseFirst(tracks, TryEnglish(tracks, TryRequested(tracks, lang)))

\* main.py:150-151
WithFormat(url) == IF ~Contains(url, "fmt=") THEN url \o "&fmt=json3" ELSE url

-----------------------------------------------------------------------------
(* Inputs: configuration, requests and what the upstream may answer *)

MaxTracks == 3

Keys == {"", "key"}
Proxies == {"", "http://proxy:8080"}

Urls ==
    { "https://www.youtube.com/watch?v=dQw4w9WgXcQ",
      "https://youtu.be/abc_DEF-123?t=5",
      " dQw4w9WgXcQ ",
      "https://www.youtube.com/live/dQw4w9WgXcQ",
      "https://example.com/video",
      "" }

Languages == {"en", "fr", "es"}

\* the request bodies: every URL form, and every language for the first
Requests ==
    { [url |-> u, language |-> "en"] : u \in Urls }
    \cup { [url |-> "https://www.youtube.com/watch?v=dQw4w9WgXcQ", language |-> l] : l \in Languages }

Track(url, code, kind) == [baseUrl |-> url, languageCode |-> code, kind |-> kind]

TrackAlphabet ==
    { Track("tt?lang=en-US", "en-US", ""),
      Track("tt?lang=en&kind=asr", "en", "asr"),
      Track("tt?lang=fr&fmt=srv3", "fr", ""),
      Track("tt?lang=de&kind=asr", "de", "asr"),
      Track("", "fr", "") }

RECURSIVE SeqsUpTo(_, _)
SeqsUpTo(S, n) ==
    IF n = 0 THEN { << >> }
    ELSE LET shorter == SeqsUpTo(S, n - 1)
         IN  shorter \cup { Append(q, x) : q \in shorter, x \in S }

\* every list of at most MaxTracks tracks
TrackLists == SeqsUpTo(TrackAlphabet, MaxTracks)

\* the caption-track lists the watch pages of the requests carry
PageTrackLists ==
    { << Track("tt?lang=en-US", "en-US", ""), Track("tt?lang=en&kind=asr", "en", "asr"),
         Track("tt?lang=fr&fmt=srv3", "fr", "") >>,
      << Track("tt?lang=de&kind=asr", "de", "asr"), Track("tt?lang=fr&fmt=srv3", "fr", "") >>,
      << Track("", "fr", "") >> }

\* a watch page: did a captionTracks pattern match, did json.loads succeed, the list
Pages ==
    { [match |-> FALSE, json_ok |-> FALSE, tracks |-> << >>],
      [match |-> TRUE,  json_ok |-> FALSE, tracks |-> << >>] }
    \cup { [match |-> TRUE, json_ok |-> TRUE, tracks |-> tl] : tl \in PageTrackLists }

NoPage == [match |-> FALSE, json_ok |-> FALSE, tracks |-> << >>]

Event(segs, start, dur) == [segs |-> segs, tStartMs |-> start, dDurationMs |-> dur]
Cue(text, start, dur) == [text |-> text, start |-> start, dur |-> dur]
Body(fmt, events, cues) == [fmt |-> fmt, events |-> events, cues |-> cues]

Bodies ==
    { Body("json3", << Event(<<"Hello", "\n", "world">>, 0, 1500),
                       Event(<<"\n", "">>, 1500, 10),
                       Event(<<"Tom &amp; Jerry\nrun ">>, 3661000, 2340) >>, << >>),
      Body("json3", << Event(<<"\n">>, 0, 10), Event(<< >>, 20, 10) >>, << >>),
      Body("json_list", << >>, << >>),
      Body("xml", << >>, << Cue("Bonjour <b>le</b> monde", 0, 1200),
                            Cue(None, 1200, 300),
                            Cue(" &amp;quot;oui&amp;quot; ", 65000, 2000) >>),
      Body("xml", << >>, << Cue("  ", 0, 1200), Cue("<i>", 1200, 300) >>),
      Body("garbage", << >>, << >>),
      Body("empty", << >>, << >>) }

NoBody == Body("empty", << >>, << >>)

\* no body has reached parse_timedtext_json in the attempt in progress
NotFetched == Body("none", << >>, << >>)

\* str(e) of exceptions raised by session.get
NetErrors == { "Read timed out.", "[Errno 24] Too many open files" }

\* what session.get(video_url) may do
PageOutcomes ==
    { [exc |-> e, status_code |-> 0, page |-> NoPage] : e \in NetErrors }
    \cup { [exc |-> None, status_code |-> c, page |-> NoPage] : c \in {403, 429} }
    \cup { [exc |-> None, status_code |-> 200, page |-> p] : p \in Pages }

\* what session.get of a caption URL may do
BodyOutcomes ==
    { [exc |-> "Read timed out.", status_code |-> 0, text |-> NoBody],
      [exc |-> None, status_code |-> 404, text |-> NoBody] }
    \cup { [exc |-> None, status_code |-> 200, text |-> b] : b \in Bodies }

-----------------------------------------------------------------------------
(* fetch_transcript_from_youtube, main.py:70-159: the pieces *)

\* main.py:76
WatchUrl(id) == "https://www.youtube.com/watch?v=" \o id

\* main.py:112
TimedtextUrl(id, lang) ==
    "https://www.youtube.com/api/timedtext?v=" \o id \o "&lang=" \o lang \o "&fmt=json3"

\* main.py:87-107
ExtractCaptionTracks(page) == IF page.match /\ page.json_ok THEN page.tracks ELSE << >>

\* main.py:299: len(full_text.split())
RECURSIVE WordCount(_)
WordCount(s) ==
    LET t == LStrip(s)
        ends == { j \in 1..Len(t) : IsSpace(Char(t, j)) }
    IN  IF t = "" THEN 0
        ELSE IF ends = {} THEN 1
        ELSE 1 + WordCount(SubSeq(t, Min(ends), Len(t)))

-----------------------------------------------------------------------------
(* get_transcript, main.py:257-327 *)

NoResponse ==
    [status_code |-> 0, detail |-> "", video_id |-> None, transcript |-> << >>,
     full_text |-> "", word_count |-> 0, language |-> None]

HTTPException(status_code, detail) ==
    [NoResponse EXCEPT !.status_code = status_code, !.detail = detail]

\* main.py:263 with the test dropped
InvalidNever(id) == FALSE

\* main.py:263: "if not video_id"
Invalid(id) == ~Truthy(id)

\* main.py:318
BlockMarkers == << "blocked", "403", "too many", "cloud" >>

\* main.py:317-318
IsBlocking(err) ==
    LET err_lower == Lower(IF Truthy(err) THEN err ELSE "")
    IN  \E k \in 1..Len(BlockMarkers) : Contains(err_lower, BlockMarkers[k])

cfg == active_configs[idx]

\* a network call: the configuration it is made under, its session's proxies, what is fetched
Call(what, id) ==
    [label |-> cfg.label, proxies |-> get_session(cfg.use_scraper, cfg.use_proxy).proxies,
     what |-> what, video_id |-> id,
     lang |-> IF what = "timedtext" THEN req.language ELSE ""]

\* main.py:109 as if "Method B" were tried whatever the page held
AfterPageAlwaysTimedtext(tracks) == "timedtext"

\* main.py:109: "if not caption_tracks"
AfterPage(tracks) == IF tracks = << >> THEN "timedtext" ELSE "select"

Attempt(ok, err) == [label |-> cfg.label, succeeded |-> ok, error |-> err]

\* main.py:310-313 as if the handler re-raised: the request ends at the first failure
FailAbort(err) ==
    /\ attempts' = Append(attempts, Attempt(FALSE, err))
    /\ last_error' = err
    /\ pc' = "done"
    /\ response' = HTTPException(404, "No transcript found.")
    /\ session' = NoSession
    /\ caption_tracks' = << >>
    /\ best_track' = None
    /\ best_index' = 0
    /\ UNCHANGED idx

\* main.py:310-313 as if the except clause let the exception go: the framework answers 500
FailUnclassified(err) ==
    /\ attempts' = Append(attempts, Attempt(FALSE, err))
    /\ last_error' = err
    /\ pc' = "done"
    /\ response' = HTTPException(500, "Internal Server Error")
    /\ session' = NoSession
    /\ caption_tracks' = << >>
    /\ best_track' = None
    /\ best_index' = 0
    /\ UNCHANGED idx

\* main.py:310-313: the except clause of the loop body
Fail(err) ==
    /\ attempts' = Append(attempts, Attempt(FALSE, err))
    /\ last_error' = err
    /\ idx' = idx + 1
    /\ pc' = "loop"
    /\ session' = NoSession
    /\ caption_tracks' = << >>
    /\ best_track' = None
    /\ best_index' = 0
    /\ UNCHANGED response

\* the 200 body of main.py:302-308 with the lines counted in place of the words
SuccessCountingLines(r) ==
    [status_code |-> 200, detail |-> "", video_id |-> video_id, transcript |-> r.lines,
     full_text |-> r.full_text, word_count |-> Len(r.lines),
     language |-> req.language]

\* the 200 body of main.py:302-308
Success(r) ==
    [status_code |-> 200, detail |-> "", video_id |-> video_id, transcript |-> r.lines,
     full_text |-> r.full_text, word_count |-> WordCount(r.full_text),
     language |-> req.language]

\* main.py:298-308 as if the loop went on after a success
SucceedAndContinue(r) ==
    /\ response' = Success(r)
    /\ attempts' = Append(attempts, Attempt(TRUE, ""))
    /\ idx' = idx + 1
    /\ pc' = "loop"
    /\ UNCHANGED << last_error, session, caption_tracks, best_track, best_index >>

\* main.py:298-308: the lines came back, the handler returns
Succeed(r) ==
    /\ response' = Success(r)
    /\ attempts' = Append(attempts, Attempt(TRUE, ""))
    /\ pc' = "done"
    /\ UNCHANGED << idx, last_error, session, caption_tracks, best_track, best_index >>

\* parse_timedtext_json over the bodies the upstream may send, computed once
ParsedBodies == { << b, parse_timedtext_json(b) >> : b \in Bodies }

\* main.py:115 and 159: parse the body, return or raise into the except clause
ParseAndFinish(text) ==
    LET r == (CHOOSE p \in ParsedBodies : p[1] = text)[2]
    IN  /\ fetched' = text
        /\ IF r.ok THEN Succeed(r) ELSE Fail(r.error)

\* the same with the body parsed on the spot
ParseNowAndFinish(text) ==
    LET r == parse_timedtext_json(text)
    IN  /\ fetched' = text
        /\ IF r.ok THEN Succeed(r) ELSE Fail(r.error)

Init ==
    /\ SCRAPER_API_KEY \in Keys
    /\ PROXY_URL \in Proxies
    /\ req \in Requests
    /\ pc = "request"
    /\ video_id = None
    /\ active_configs = << >>
    /\ idx = 0
    /\ last_error = None
    /\ session = NoSession
    /\ caption_tracks = << >>
    /\ best_track = None
    /\ best_index = 0
    /\ response = NoResponse
    /\ attempts = << >>
    /\ calls = << >>
    /\ fetched = NotFetched
    /\ chunks = << >>
    /\ translated_chunks = << >>
    /\ handlers = << >>

\* main.py:258-289
ReceiveRequest ==
    /\ pc = "request"
    /\ video_id' = extract_video_id(req.url)
    /\ IF Invalid(video_id')
       THEN /\ response' = HTTPException(400, "Invalid YouTube URL.")
            /\ pc' = "done"
            /\ UNCHANGED << active_configs, idx, last_error >>
       ELSE /\ active_configs' = ActiveConfigs
            /\ idx' = 1
            /\ last_error' = None
            /\ pc' = "loop"
            /\ UNCHANGED response
    /\ UNCHANGED << SCRAPER_API_KEY, PROXY_URL, req, session, caption_tracks,
                    best_track, best_index, attempts, calls, fetched,
                    chunks, translated_chunks, handlers >>

\* main.py:291-297 and 76-116: build the session, get the watch page, extract the tracks
FetchPage ==
    /\ pc = "loop"
    /\ idx <= Len(active_configs)
    /\ calls' = Append(calls, Call("page", video_id))
    /\ \E out \in PageOutcomes :
         IF out.exc # None THEN Fail(out.exc)
         ELSE IF out.status_code # 200
         THEN Fail("YouTube returned " \o ToString(out.status_code))
         ELSE /\ caption_tracks' = ExtractCaptionTracks(out.page)
              /\ pc' = AfterPage(caption_tracks')
              /\ session' = get_session(cfg.use_scraper, cfg.use_proxy)
              /\ UNCHANGED << idx, last_error, best_track, best_index, response, attempts >>
    /\ fetched' = NotFetched
    /\ UNCHANGED << SCRAPER_API_KEY, PROXY_URL, req, video_id, active_configs,
                    chunks, translated_chunks, handlers >>

\* main.py:118-151: pick the caption track to fetch
SelectBestTrack ==
    /\ pc = "select"
    /\ LET sel == SelectTrack(caption_tracks, req.language)
       IN  IF ~Truthy(sel.url)
           THEN Fail("No usable caption track found")
           ELSE /\ pc' = "caption"
                /\ best_track' = WithFormat(sel.url)
                /\ best_index' = sel.index
                /\ UNCHANGED << idx, last_error, session, caption_tracks, response, attempts >>
    /\ UNCHANGED << SCRAPER_API_KEY, PROXY_URL, req, video_id, active_configs, calls,
                    fetched, chunks, translated_chunks, handlers >>

\* main.py:109-116: "Method B", the direct timedtext endpoint
FetchTimedtext ==
    /\ pc = "timedtext"
    /\ calls' = Append(calls, Call("timedtext", video_id))
    /\ \E r \in BodyOutcomes :
         IF r.exc # None THEN Fail(r.exc) /\ fetched' = NotFetched
         ELSE IF r.status_code = 200 /\ r.text.fmt # "empty"
         THEN ParseAndFinish(r.text)
         ELSE Fail("No caption tracks found in page source") /\ fetched' = NotFetched
    /\ UNCHANGED << SCRAPER_API_KEY, PROXY_URL, req, video_id, active_configs,
                    chunks, translated_chunks, handlers >>

\* main.py:148-159: fetch the chosen caption track
FetchCaption ==
    /\ pc = "caption"
    /\ calls' = Append(calls, Call("caption", video_id))
    /\ \E transcript_resp \in BodyOutcomes :
         IF transcript_resp.exc # None
         THEN Fail(transcript_resp.exc) /\ fetched' = NotFetched
         ELSE IF transcript_resp.status_code # 200
         THEN /\ Fail("Caption fetch returned " \o ToString(transcript_resp.status_code))
              /\ fetched' = NotFetched
         ELSE ParseAndFinish(transcript_resp.text)
    /\ UNCHANGED << SCRAPER_API_KEY, PROXY_URL, req, video_id, active_configs,
                    chunks, translated_chunks, handlers >>

\* main.py:315-327: every configuration failed
Exhausted ==
    /\ pc = "loop"
    /\ idx > Len(active_configs)
    /\ response' = IF IsBlocking(last_error)
                   THEN HTTPException(503, "YouTube is blocking this server. Please try again later.")
                   ELSE HTTPException(404, "No transcript found. This video may not have captions, or may be private/age-restricted.")
    /\ pc' = "done"
    /\ UNCHANGED << SCRAPER_API_KEY, PROXY_URL, req, video_id, active_configs, idx,
                    last_error, session, caption_tracks, best_track, best_index,
                    attempts, calls, fetched, chunks, translated_chunks, handlers >>

Next ==
    \/ ReceiveRequest
    \/ FetchPage
    \/ SelectBestTrack
    \/ FetchTimedtext
    \/ FetchCaption
    \/ Exhausted

Spec == Init /\ [][Next]_vars

-----------------------------------------------------------------------------
(* Caption-track selection on its own: the handler stands right after a    *)
(* watch page came back 200 with a caption-track list, for every list of   *)
(* at most MaxTracks tracks and every requested language.                  *)

SelectInit ==
    /\ SCRAPER_API_KEY = ""
    /\ PROXY_URL = ""
    /\ req \in [url : {"https://www.youtube.com/watch?v=dQw4w9WgXcQ"}, language : Languages]
    /\ video_id = extract_video_id(req.url)
    /\ active_configs = ActiveConfigs
    /\ idx = 1
    /\ last_error = None
    /\ session = get_session(FALSE, FALSE)
    /\ caption_tracks \in TrackLists \ { << >> }
    /\ best_track = None
    /\ best_index = 0
    /\ response = NoResponse
    /\ attempts = << >>
    /\ calls = << [label |-> "Direct", proxies |-> "", what |-> "page", video_id |-> video_id,
                    lang |-> ""] >>
    /\ pc = "select"
    /\ fetched = NotFetched
    /\ chunks = << >>
    /\ translated_chunks = << >>
    /\ handlers = << >>

SpecSelect == SelectInit /\ [][SelectBestTrack]_vars

-----------------------------------------------------------------------------
(* Properties of POST /transcript *)

Labels(log) == [i \in 1..Len(log) |-> log[i].label]

Last(log) == log[Len(log)]

\* the priority order of the strategies
Priority == << "ScraperAPI", "Custom Proxy", "Direct" >>

Rank(label) == CHOOSE k \in 1..Len(Priority) : Priority[k] = label

Failed == response.status_code \in {404, 503}

\* C1: a 200 response is the success of the first active strategy that
\* succeeds: the strategies attempted are a prefix of the active list, all but
\* the last failed, the last one succeeded and produced the response, the
\* handler has returned, and no session or network call exists for a later one.
C1_FirstSuccessWins ==
    response.status_code = 200 =>
        /\ pc = "done"
        /\ attempts # << >>
        /\ Last(attempts).succeeded
        /\ \A i \in 1..(Len(attempts) - 1) : ~attempts[i].succeeded
        /\ Labels(attempts) = SubSeq(Labels(active_configs), 1, Len(attempts))
        /\ \A i \in 1..Len(calls) : \E j \in 1..Len(attempts) : calls[i].label = attempts[j].label
        /\ Last(calls).label = Last(attempts).label
        /\ response.transcript # << >>

\* C1 witness: the second of three active strategies succeeded after the first
\* failed, and the third was never invoked.
C1_Witness ==
    /\ response.status_code = 200
    /\ Len(active_configs) = 3
    /\ Len(attempts) = 2
    /\ ~attempts[1].succeeded
    /\ Last(calls).label = "Custom Proxy"

\* the blocking markers as the specification lists them
SpecBlockMarkers == << "blocked", "403", "too many requests", "cloud" >>

CarriesSpecMarker(err) ==
    \E k \in 1..Len(SpecBlockMarkers) : Contains(Lower(err), SpecBlockMarkers[k])

\* C2: when every active strategy failed, the status is 503 exactly when the
\* error text of the last attempted strategy carries one of the markers
\* "blocked", "403", "too many requests", "cloud", and 404 otherwise.
C2_TerminalStatusFromLastFailure ==
    (pc = "done" /\ Failed) =>
        /\ attempts # << >>
        /\ response.status_code = (IF CarriesSpecMarker(Last(attempts).error) THEN 503 ELSE 404)

\* C3: a failure of any kind never ends the request: a terminal failure
\* response exists only when every active strategy was attempted and failed,
\* and after a failure that is not the last strategy's the handler goes on.
C3_FailureNeverEndsRequest ==
    /\ (response.status_code \notin {0, 200, 400}) =>
          /\ Failed
          /\ Labels(attempts) = Labels(active_configs)
          /\ \A i \in 1..Len(attempts) : ~attempts[i].succeeded
    /\ (attempts # << >> /\ ~Last(attempts).succeeded /\ Len(attempts) < Len(active_configs)) =>
          /\ pc # "done"
          /\ response = NoResponse
    /\ (pc = "done" /\ response.status_code # 400) =>
          /\ attempts # << >>
          /\ Last(attempts).succeeded \/ Len(attempts) = Len(active_configs)

\* C3 witness: a timeout, a non-200 page and a payload with zero lines, one per
\* strategy, and only then the terminal failure.
C3_Witness ==
    /\ pc = "done"
    /\ Failed
    /\ Len(attempts) = 3
    /\ attempts[1].error = "Read timed out."
    /\ attempts[2].error = "YouTube returned 429"
    /\ attempts[3].error = "No lines parsed from timedtext"

LastFailure ==
    LET failed == { i \in 1..Len(attempts) : ~attempts[i].succeeded }
    IN  IF failed = {} THEN None ELSE attempts[CHOOSE i \in failed : \A j \in failed : j <= i].error

Unconfigured ==
    (IF SCRAPER_API_KEY = "" THEN {"ScraperAPI"} ELSE {})
    \cup (IF PROXY_URL = "" THEN {"Custom Proxy"} ELSE {})

\* C4: a strategy whose configuration is absent is never attempted: no network
\* call and no attempt carries its label, and last_error is always the error of
\* the last failed attempt of a configured strategy (None before any).
C4_UnconfiguredNeverAttempted ==
    /\ \A i \in 1..Len(calls) : calls[i].label \notin Unconfigured
    /\ \A i \in 1..Len(attempts) : attempts[i].label \notin Unconfigured
    /\ \A i \in 1..Len(active_configs) : active_configs[i].label \notin Unconfigured
    /\ last_error = LastFailure

\* C4 witness: no ScraperAPI key, a proxy URL, and the request failed after
\* exactly the two configured strategies.
C4_Witness ==
    /\ SCRAPER_API_KEY = ""
    /\ PROXY_URL # ""
    /\ pc = "done"
    /\ Failed
    /\ Labels(attempts) = << "Custom Proxy", "Direct" >>

InProgress == pc \in {"select", "timedtext", "caption"}

\* C5: the strategies run one after another in the order ScraperAPI, Custom
\* Proxy, Direct: attempts and network calls are in priority order, no strategy
\* is attempted twice, no call is made twice for a strategy, and every call
\* belongs to a finished attempt or to the single attempt in progress.
C5_SequentialFixedOrder ==
    /\ \A i, j \in 1..Len(attempts) : i < j => Rank(attempts[i].label) < Rank(attempts[j].label)
    /\ \A i, j \in 1..Len(calls) : i < j =>
          /\ Rank(calls[i].label) <= Rank(calls[j].label)
          /\ calls[i].label = calls[j].label => calls[i].what # calls[j].what
    /\ \A i \in 1..Len(calls) :
          \/ \E j \in 1..Len(attempts) : attempts[j].label = calls[i].label
          \/ InProgress /\ calls[i].label = cfg.label /\ Len(attempts) = idx - 1
    /\ \A i \in 1..Len(attempts) : attempts[i].label = active_configs[i].label

\* C5 witness: all three strategies were attempted, each with two network calls.
C5_Witness ==
    /\ Labels(attempts) = Priority
    /\ Len(calls) = 6

IsVideoId(id) == Len(id) = IdLen /\ AllIdChars(id)

\* C6: the video id is validated before any strategy runs: without an
\* extractable id the response is 400 and nothing was attempted or fetched, and
\* every network call is made for the 11-character id extracted from the URL.
C6_IdValidatedFirst ==
    LET id == extract_video_id(req.url)
    IN  /\ (pc # "request" /\ id = None) =>
              /\ pc = "done"
              /\ response.status_code = 400
              /\ attempts = << >>
              /\ calls = << >>
        /\ response.status_code = 400 => id = None
        /\ \A i \in 1..Len(calls) :
              /\ IsVideoId(calls[i].video_id)
              /\ calls[i].video_id = id

\* C6 witness: a URL without a recognised id was answered 400 with no call made.
C6_Witness ==
    /\ req.url = "https://example.com/video"
    /\ response.status_code = 400
    /\ calls = << >>

ZeroLineErrors == { "No lines parsed from timedtext", "XML parse failed: No lines in XML" }

\* C7: a 200 response never has an empty transcript, and no line of it has an
\* empty text.
C7_NeverEmptyTranscript ==
    response.status_code = 200 =>
        /\ response.transcript # << >>
        /\ \A i \in 1..Len(response.transcript) : response.transcript[i].text # ""

\* C7 witness: the first strategy got a payload with zero lines from the direct
\* timedtext endpoint and failed, and the next strategy delivered the lines.
C7_Witness ==
    /\ response.status_code = 200
    /\ Len(attempts) = 2
    /\ attempts[1].error \in ZeroLineErrors
    /\ calls[2].what = "timedtext"

-----------------------------------------------------------------------------
(* Properties of the caption-track selection *)

Codes(tracks) == [i \in 1..Len(tracks) |-> tracks[i].languageCode]

FirstMatch ==
    FirstIndex({ i \in 1..Len(caption_tracks) : MatchesLang(caption_tracks[i], req.language) })

FirstEnglish == FirstIndex({ i \in 1..Len(caption_tracks) : IsEnglish(caption_tracks[i]) })

HasUrl(i) == i # 0 /\ Truthy(caption_tracks[i].baseUrl)

Selected(i) ==
    /\ pc' = "caption"
    /\ best_index' = i
    /\ best_track' = WithFormat(caption_tracks[i].baseUrl)

\* C8 as stated: whenever a track matches the requested code, the first such
\* track is the one selected.
C8_RequestedMatchWins ==
    [][(pc = "select" /\ FirstMatch # 0) => Selected(FirstMatch)]_vars

\* C8 amended: whenever a track matches the requested code and the first such
\* track has a base URL, that track is the one selected, ahead of every
\* English-family or first-track fallback.
C8_RequestedMatchWithUrlWins ==
    [][(pc = "select" /\ HasUrl(FirstMatch)) => Selected(FirstMatch)]_vars

\* C8 witness: [en-US manual, en auto, fr manual] with "en" requested selected en-US.
C8_Witness ==
    /\ pc = "caption"
    /\ req.language = "en"
    /\ Codes(caption_tracks) = << "en-US", "en", "fr" >>
    /\ best_index = 1
    /\ best_track = "tt?lang=en-US&fmt=json3"

AllHaveUrl == \A i \in 1..Len(caption_tracks) : Truthy(caption_tracks[i].baseUrl)

FirstManual == FirstIndex({ i \in 1..Len(caption_tracks) : caption_tracks[i].kind # "asr" })

C10_LanguageIsResolved ==
    (response.status_code = 200 /\ best_index # 0
       /\ ~MatchesLang(caption_tracks[best_index], req.language)) =>
        response.language = caption_tracks[best_index].languageCode


-----------------------------------------------------------------------------
(* GET /languages/{video_id}, main.py:329-368 *)

\* a JSON value of a track's "name": absent, an object, or a bare string
Name(shape, simpleText) == [shape |-> shape, simpleText |-> simpleText]

\* an element of the decoded captionTracks value: an object or a bare string
LangTrack(shape, code, name, kind) ==
    [shape |-> shape, languageCode |-> code, name |-> name, kind |-> kind]

LangTrackAlphabet ==
    { LangTrack("object", "en", Name("object", "English"), ""),
      LangTrack("object", "en", Name("object", "English (auto-generated)"), "asr"),
      LangTrack("object", "fr", Name("absent", ""), ""),
      LangTrack("object", "", Name("object", "Unknown"), ""),
      LangTrack("object", "de", Name("object_without_simpleText", ""), "asr"),
      LangTrack("object", "es", Name("string", "Spanish"), ""),
      LangTrack("string", "", Name("absent", ""), "") }

MaxLangTracks == 2

LangTrackLists == SeqsUpTo(LangTrackAlphabet, MaxLangTracks)

\* the watch page as get_languages reads it: did the pattern of main.py:349 match,
\* what json.loads made of the match ("list", "object", or "error" when it raised)
LangPage(match, decoded, tracks) == [match |-> match, decoded |-> decoded, tracks |-> tracks]

LangPages ==
    { LangPage(FALSE, "error", << >>), LangPage(TRUE, "error", << >>),
      LangPage(TRUE, "object", << >>) }
    \cup { LangPage(TRUE, "list", tl) : tl \in LangTrackLists }

\* what session.get(video_url) may do; the status is not looked at (main.py:346-347)
LangOutcomes ==
    { [exc |-> e, page |-> LangPage(FALSE, "error", << >>)] : e \in NetErrors }
    \cup { [exc |-> None, page |-> p] : p \in LangPages }

\* main.py:354-356: does reading the entry raise
EntryRaises(t) == t.shape = "string" \/ t.name.shape = "string"

\* main.py:354-362: the descriptor appended for one entry
Descriptor(t) ==
    [ code           |-> t.languageCode,
      name           |-> IF t.name.shape = "object" THEN t.name.simpleText ELSE t.languageCode,
      auto_generated |-> Contains(t.kind, "asr") ]

RECURSIVE Descriptors(_)
Descriptors(tracks) ==
    IF tracks = << >> THEN << >>
    ELSE IF Truthy(Head(tracks).languageCode)
         THEN << Descriptor(Head(tracks)) >> \o Descriptors(Tail(tracks))
         ELSE Descriptors(Tail(tracks))

\* main.py:349-363: "returned" with the languages, "raised" into the except clause,
\* or "none" when the pattern did not match and the try block ends without a return
ListLanguages(page) ==
    IF ~page.match THEN [kind |-> "none", languages |-> << >>, error |-> None]
    ELSE IF page.decoded = "error"
    THEN [kind |-> "raised", languages |-> << >>,
          error |-> "Expecting value: line 1 column 2 (char 1)"]
    ELSE IF page.decoded = "object"
    THEN [kind |-> "raised", languages |-> << >>,
          error |-> "'str' object has no attribute 'get'"]
    ELSE IF \E k \in 1..Len(page.tracks) : EntryRaises(page.tracks[k])
    THEN [kind |-> "raised", languages |-> << >>,
          error |-> "'str' object has no attribute 'get'"]
    ELSE [kind |-> "returned", languages |-> Descriptors(page.tracks), error |-> None]

\* main.py:363 and 368
LanguagesResponse(id, languages) ==
    [status_code |-> 200, video_id |-> id, languages |-> languages]

\* an exception leaving get_languages: the framework answers 500
LanguagesError(id) == [status_code |-> 500, video_id |-> id, languages |-> << >>]

lcfg == session_configs[idx]

LangAttempt(ok, err) == [label |-> lcfg.label, succeeded |-> ok, error |-> err]

\* main.py:364-366 as if the exception left the handler
LanguagesFailRaise(err) ==
    /\ attempts' = Append(attempts, LangAttempt(FALSE, err))
    /\ response' = LanguagesError(video_id)
    /\ pc' = "done"
    /\ UNCHANGED idx

\* main.py:364-366: the except clause: log and go on with the next configuration
LanguagesFail(err) ==
    /\ attempts' = Append(attempts, LangAttempt(FALSE, err))
    /\ idx' = idx + 1
    /\ UNCHANGED << pc, response >>

VideoIds == { "dQw4w9WgXcQ", "abc_DEF-123", "not a video id", "" }

LanguagesInit ==
    /\ SCRAPER_API_KEY \in Keys
    /\ PROXY_URL \in Proxies
    /\ video_id \in VideoIds
    /\ pc = "languages"
    /\ idx = 1
    /\ req = [url |-> "", language |-> ""]
    /\ active_configs = << >>
    /\ last_error = None
    /\ session = NoSession
    /\ caption_tracks = << >>
    /\ best_track = None
    /\ best_index = 0
    /\ response = NoResponse
    /\ attempts = << >>
    /\ calls = << >>
    /\ fetched = NotFetched
    /\ chunks = << >>
    /\ translated_chunks = << >>
    /\ handlers = << >>

\* main.py:338-342: a configuration whose credential is missing is passed over
LanguagesSkip ==
    /\ pc = "languages"
    /\ idx <= Len(session_configs)
    /\ ~Keep(lcfg)
    /\ idx' = idx + 1
    /\ UNCHANGED << SCRAPER_API_KEY, PROXY_URL, req, pc, video_id, active_configs,
                    last_error, session, caption_tracks, best_track, best_index,
                    response, attempts, calls, fetched, chunks, translated_chunks,
                    handlers >>

\* main.py:343-366: one configuration: get the page, list its tracks
LanguagesFetch ==
    /\ pc = "languages"
    /\ idx <= Len(session_configs)
    /\ Keep(lcfg)
    /\ calls' = Append(calls, [label |-> lcfg.label,
                               proxies |-> get_session(lcfg.use_scraper, lcfg.use_proxy).proxies,
                               what |-> "page", video_id |-> video_id, lang |-> ""])
    /\ \E out \in LangOutcomes :
         LET r == IF out.exc # None
                  THEN [kind |-> "raised", languages |-> << >>, error |-> out.exc]
                  ELSE ListLanguages(out.page)
         IN  IF r.kind = "returned"
             THEN /\ response' = LanguagesResponse(video_id, r.languages)
                  /\ attempts' = Append(attempts, LangAttempt(TRUE, None))
                  /\ pc' = "done"
                  /\ UNCHANGED idx
             ELSE IF r.kind = "raised"
             THEN LanguagesFail(r.error)
             ELSE /\ attempts' = Append(attempts, LangAttempt(FALSE, None))
                  /\ idx' = idx + 1
                  /\ UNCHANGED << pc, response >>
    /\ UNCHANGED << SCRAPER_API_KEY, PROXY_URL, req, video_id, active_configs,
                    last_error, session, caption_tracks, best_track, best_index,
                    fetched, chunks, translated_chunks, handlers >>

\* main.py:368: every configuration was passed over or failed
LanguagesExhausted ==
    /\ pc = "languages"
    /\ idx > Len(session_configs)
    /\ response' = LanguagesResponse(video_id, << >>)
    /\ pc' = "done"
    /\ UNCHANGED << SCRAPER_API_KEY, PROXY_URL, req, video_id, active_configs, idx,
                    last_error, session, caption_tracks, best_track, best_index,
                    attempts, calls, fetched, chunks, translated_chunks, handlers >>

LanguagesNext == LanguagesSkip \/ LanguagesFetch \/ LanguagesExhausted

SpecLanguages == LanguagesInit /\ [][LanguagesNext]_vars

\* C11: GET /languages never errors: whatever the configuration and whatever each
\* strategy met (a network exception, a page without a caption-track list, track JSON
\* that does not decode, malformed entries), the handler goes on until it answers, and
\* its answer is a 200 body with the video id of the request and a list of language
\* descriptors; the list is empty when every strategy that ran failed.
C11_LanguagesNeverErrors ==
    /\ pc # "done" => /\ response = NoResponse
                      /\ ENABLED LanguagesNext
                      /\ \A k \in 1..Len(attempts) : ~attempts[k].succeeded
    /\ pc = "done" =>
         /\ response.status_code = 200
         /\ response.video_id = video_id
         /\ \A k \in 1..Len(response.languages) :
              /\ DOMAIN response.languages[k] = {"code", "name", "auto_generated"}
              /\ response.languages[k].code # ""
         /\ (\A k \in 1..Len(attempts) : ~attempts[k].succeeded)
              => response.languages = << >>
         /\ Labels(attempts) = Labels(SelectSeq(session_configs, Keep))
              \/ (attempts # << >> /\ Last(attempts).succeeded)

\* every configured strategy failed, each in its own way, and the answer is the empty list
C11_Witness ==
    /\ pc = "done"
    /\ Len(attempts) = 3
    /\ \A k \in 1..3 : ~attempts[k].succeeded
    /\ attempts[1].error \in NetErrors
    /\ attempts[2].error = None
    /\ attempts[3].error = "'str' object has no attribute 'get'"
    /\ response = LanguagesResponse(video_id, << >>)


-----------------------------------------------------------------------------
(* The normalizers on their own: the handler stands right after the chosen  *)
(* caption track came back 200, for every JSON3 and XML payload of at most  *)
(* MaxEntries entries, and for bodies that are neither.                     *)

MaxEntries == 3

EventAlphabet ==
    { Event(<<"Hello", "\n", "world">>, 0, 1500),
      Event(<<"\n", "">>, 1500, 10),
      Event(<<"Tom &amp; Jerry\nrun ">>, 3661999, 2340),
      Event(<<" ", "\n">>, 61230, 990),
      Event(<< >>, 20, 10) }

CueAlphabet ==
    { Cue("Bonjour <b>le</b> monde", 0, 1200),
      Cue(None, 1200, 300),
      Cue(" &amp;quot;oui&amp;quot; ", 65999, 2000),
      Cue("<i>", 3000, 300),
      Cue("two  words <b>", 7384, 1116) }

ParseInputs ==
    { Body("json3", events, << >>) : events \in SeqsUpTo(EventAlphabet, MaxEntries) }
    \cup { Body("xml", << >>, cues) : cues \in SeqsUpTo(CueAlphabet, MaxEntries) }
    \cup { Body("json_list", << >>, << >>), Body("garbage", << >>, << >>),
           Body("empty", << >>, << >>) }

ParseInit ==
    /\ SCRAPER_API_KEY = ""
    /\ PROXY_URL = ""
    /\ req = [url |-> "https://www.youtube.com/watch?v=dQw4w9WgXcQ", language |-> "en"]
    /\ video_id = extract_video_id(req.url)
    /\ active_configs = ActiveConfigs
    /\ idx = 1
    /\ last_error = None
    /\ session = get_session(FALSE, FALSE)
    /\ caption_tracks = << Track("https://www.youtube.com/api/timedtext?v=dQw4w9WgXcQ&lang=en", "en", "") >>
    /\ best_track = WithFormat(caption_tracks[1].baseUrl)
    /\ best_index = 1
    /\ response = NoResponse
    /\ attempts = << >>
    /\ calls = << [label |-> "Direct", proxies |-> "", what |-> "page", video_id |-> video_id,
                    lang |-> ""] >>
    /\ pc = "caption"
    /\ fetched = NotFetched
    /\ chunks = << >>
    /\ translated_chunks = << >>
    /\ handlers = << >>

\* main.py:153-159 with a 200 answer: the body goes to parse_timedtext_json
ParseCaption ==
    /\ pc = "caption"
    /\ calls' = Append(calls, Call("caption", video_id))
    /\ \E text \in ParseInputs : ParseNowAndFinish(text)
    /\ UNCHANGED << SCRAPER_API_KEY, PROXY_URL, req, video_id, active_configs,
                    chunks, translated_chunks, handlers >>

SpecParse == ParseInit /\ [][ParseCaption]_vars

\* the entries of the payload parsed, in payload order
Entries == IF fetched.fmt = "json3" THEN fetched.events ELSE fetched.cues

CleanText(i) == IF fetched.fmt = "json3" THEN EventText(Entries[i]) ELSE CueText(Entries[i])

StartMs(i) == IF fetched.fmt = "json3" THEN Entries[i].tStartMs ELSE Entries[i].start

DurationMs(i) == IF fetched.fmt = "json3" THEN Entries[i].dDurationMs ELSE Entries[i].dur

\* the positions of the entries whose cleaned text is not empty
KeptEntries == { i \in 1..Len(Entries) : CleanText(i) # "" }

\* the position of the k-th such entry
KthKept(k) == CHOOSE i \in KeptEntries : Cardinality({ j \in KeptEntries : j <= i }) = k

\* C12: normalization preserves count and order: for a JSON3 or XML payload with N
\* entries whose cleaned text is not empty, N >= 1, the strategy succeeds with exactly
\* N lines; line k comes from the k-th such entry: it has that entry's cleaned text,
\* its start and duration in seconds to two decimals (kept here in hundredths, within
\* half a hundredth of the milliseconds), and the formatted time of the whole seconds
\* of its start. Entries with empty text leave no line; with N = 0 the parse fails.
C12_CountAndOrderPreserved ==
    (pc # "caption" /\ fetched.fmt \in {"json3", "xml"}) =>
        LET N == Cardinality(KeptEntries)
        IN  IF N = 0
            THEN response.status_code = 0 /\ ~Last(attempts).succeeded
            ELSE /\ response.status_code = 200
                 /\ Len(response.transcript) = N
                 /\ \A k \in 1..N :
                      LET line == response.transcript[k]
                          i    == KthKept(k)
                      IN  /\ line.text = CleanText(i)
                          /\ 10 * line.start - StartMs(i) \in -4..4
                          /\ 10 * line.duration - DurationMs(i) \in -4..4
                          /\ line.formatted_time = format_time(1000 * (StartMs(i) \div 1000))

\* a JSON3 payload of three events, the middle one empty: two lines, in payload order
C12_Witness ==
    /\ pc = "done"
    /\ fetched.fmt = "json3"
    /\ Len(fetched.events) = 3
    /\ KeptEntries = {1, 3}
    /\ Texts(response.transcript) = << "Tom & Jerry run", "Hello world" >>
    /\ response.transcript[1].start = 366200
    /\ response.transcript[1].formatted_time = "1:01:01"


-----------------------------------------------------------------------------
(* Properties of the fetch of a caption body, main.py:109-116 and 148-159 *)

\* the cleaned texts of the entries that have one, in payload order
KeptTexts == [k \in 1..Cardinality(KeptEntries) |-> CleanText(KthKept(k))]

\* C13: XML fallback: when the body fetched (from the chosen caption-track URL or from
\* the timedtext endpoint) is not JSON but timedtext XML with at least one non-empty
\* cue, the strategy succeeds and the lines are those of the XML cues; a body that is
\* JSON is answered from its events or fails with the JSON parser's own error, never
\* with an XML parser's error: the XML parser runs only when JSON decoding failed.
C13_XmlFallback ==
    (fetched.fmt # "none" /\ pc \in {"loop", "done"}) =>
        LET a == Last(attempts)
        IN  /\ (fetched.fmt = "xml" /\ KeptEntries # {}) =>
                 /\ a.succeeded
                 /\ response.status_code = 200
                 /\ Texts(response.transcript) = KeptTexts
            /\ fetched.fmt \in {"json3", "json_list"} =>
                 IF a.succeeded
                 THEN fetched.fmt = "json3" /\ Texts(response.transcript) = KeptTexts
                 ELSE a.error \in {"No lines parsed from timedtext",
                                   "'list' object has no attribute 'get'"}
            /\ StartsWith(a.error, "XML parse failed") =>
                 fetched.fmt \in {"xml", "garbage", "empty"}

\* the timedtext endpoint answered XML and the strategy succeeded with its cues
C13_Witness ==
    /\ pc = "done"
    /\ response.status_code = 200
    /\ fetched.fmt = "xml"
    /\ Last(calls).what = "timedtext"
    /\ Texts(response.transcript) = << "Bonjour le monde", "&quot;oui&quot;" >>


-----------------------------------------------------------------------------
(* extract_video_id on its own, main.py:26-39: the handler receives a       *)
(* request whose url is any of the URL forms below, or no YouTube URL.      *)

Ids == { "dQw4w9WgXcQ", "abc_DEF-123", "-_-_-_-_-_-" }

UrlHeads ==
    { "https://www.youtube.com/watch?v=", "https://youtu.be/",
      "https://www.youtube.com/shorts/", "https://www.youtube.com/embed/",
      "https://www.youtube.com/live/" }

UrlTails == { "", "?t=5", "&list=PL1" }

ExtractUrls ==
    { head \o id \o tail : head \in UrlHeads, id \in Ids, tail \in UrlTails }
    \cup Ids
    \cup { " " \o id \o " " : id \in Ids }
    \cup { "https://www.youtube.com/embed/abc_DEF-123?v=dQw4w9WgXcQ",
           "https://youtu.be/abc_DEF-123?feature=shorts/dQw4w9WgXcQ",
           "dQw4w9WgXcQx", "dQw4w9WgXc", "dQw4w9 WgXcQ",
           "https://www.youtube.com/watch?v=short",
           "https://example.com/video", "" }

ExtractInit ==
    /\ SCRAPER_API_KEY = ""
    /\ PROXY_URL = ""
    /\ req \in [url : ExtractUrls, language : {"en", "fr"}]
    /\ pc = "request"
    /\ video_id = None
    /\ active_configs = << >>
    /\ idx = 0
    /\ last_error = None
    /\ session = NoSession
    /\ caption_tracks = << >>
    /\ best_track = None
    /\ best_index = 0
    /\ response = NoResponse
    /\ attempts = << >>
    /\ calls = << >>
    /\ fetched = NotFetched
    /\ chunks = << >>
    /\ translated_chunks = << >>
    /\ handlers = << >>

SpecExtract == ExtractInit /\ [][ReceiveRequest]_vars

\* the URL patterns the specification lists, in its order
SpecPatterns == << "v=", "youtu.be/", "shorts/", "embed/", "live/" >>

\* the id the specification's rule gives: the first of its patterns that matches wins,
\* then a bare id after trimming, else nothing
SpecVideoId(url) ==
    LET hits == { k \in 1..Len(SpecPatterns) : MatchPositions(SpecPatterns[k], url) # {} }
    IN  IF hits # {} THEN SearchGroup(SpecPatterns[Min(hits)], url)
        ELSE IF IsBareId(url) THEN Strip(url)
        ELSE None

\* C14: extract_video_id returns the 11-character id of every watch (v=), youtu.be/,
\* shorts/, embed/ and live/ URL, the first pattern in that order winning; a bare
\* 11-character id is returned trimmed; every other input yields no id.
C14_ExtractsEveryUrlForm ==
    pc # "request" => video_id = SpecVideoId(req.url)


-----------------------------------------------------------------------------
(* POST /translate, main.py:370-386 *)

\* main.py:375
chunk_size == 4500

CeilDiv(a, b) == (a + b - 1) \div b

\* main.py:376 as if range stopped before a last chunk shorter than chunk_size
ChunksWholeOnly(text) ==
    [k \in 1..(Len(text) \div chunk_size) |->
        SubSeq(text, (k - 1) * chunk_size + 1, k * chunk_size)]

\* main.py:376: [req.text[i:i+chunk_size] for i in range(0, len(req.text), chunk_size)]
Chunks(text) ==
    [k \in 1..CeilDiv(Len(text), chunk_size) |->
        SubSeq(text, (k - 1) * chunk_size + 1,
               IF k * chunk_size < Len(text) THEN k * chunk_size ELSE Len(text))]

\* what GoogleTranslator(...).translate(chunk) may do: raise, or return a translation:
\* the chunk itself when the text is already in the target language ("same"), else
\* another text, here the chunk behind a mark of the target language ("other")
TranslatorOutcomes ==
    { [exc |-> None, kind |-> "same"], [exc |-> None, kind |-> "other"],
      [exc |-> "Request exception can happen due to an api connection error.",
       kind |-> "none"] }

Translation(kind, chunk, target) ==
    IF kind = "same" THEN chunk ELSE "[" \o target \o "] " \o chunk

NoTranslation == [status_code |-> 0, detail |-> "", translated |-> "", target_language |-> ""]

\* main.py:381-384
Translated(parts, target) ==
    [status_code |-> 200, detail |-> "", translated |-> Join(parts, " "),
     target_language |-> target]

\* main.py:373 and 386
TranslateError(status_code, detail) ==
    [status_code |-> status_code, detail |-> detail, translated |-> "", target_language |-> ""]

MaxChunks == 3

RECURSIVE Grown(_)
Grown(t) == IF Len(t) >= MaxChunks * chunk_size THEN t ELSE Grown(t \o t)

\* a text long enough for MaxChunks chunks; its period does not divide chunk_size
LongText == Grown("The quick brown. ")

TextLengths ==
    { 1, 17 } \cup { k * chunk_size + d : k \in 1..MaxChunks, d \in {-1, 0} }
              \cup { k * chunk_size + 1 : k \in 1..(MaxChunks - 1) }

TranslateTexts == { "" } \cup { SubSeq(LongText, 1, n) : n \in TextLengths }

TargetLanguages == { "", "fr", "de" }

TranslateInit ==
    /\ SCRAPER_API_KEY = ""
    /\ PROXY_URL = ""
    /\ req \in [text : TranslateTexts, target_language : TargetLanguages]
    /\ pc = "translate"
    /\ video_id = None
    /\ active_configs = << >>
    /\ idx = 0
    /\ last_error = None
    /\ session = NoSession
    /\ caption_tracks = << >>
    /\ best_track = None
    /\ best_index = 0
    /\ response = NoTranslation
    /\ attempts = << >>
    /\ calls = << >>
    /\ fetched = NotFetched
    /\ chunks = << >>
    /\ translated_chunks = << >>
    /\ handlers = << >>

\* main.py:371-377
TranslateReceive ==
    /\ pc = "translate"
    /\ IF ~Truthy(req.text) \/ ~Truthy(req.target_language)
       THEN /\ response' = TranslateError(400, "Missing text or target language")
            /\ pc' = "done"
            /\ UNCHANGED << chunks, translated_chunks, idx >>
       ELSE /\ chunks' = Chunks(req.text)
            /\ translated_chunks' = << >>
            /\ idx' = 1
            /\ pc' = "chunk"
            /\ UNCHANGED response
    /\ UNCHANGED << SCRAPER_API_KEY, PROXY_URL, req, video_id, active_configs,
                    last_error, session, caption_tracks, best_track, best_index,
                    attempts, calls, fetched, handlers >>

\* main.py:378-380 and 385-386: one pass of "for chunk in chunks"
TranslateChunk ==
    /\ pc = "chunk"
    /\ idx <= Len(chunks)
    /\ calls' = Append(calls, [what |-> "translate", target |-> req.target_language,
                               chunk |-> chunks[idx]])
    /\ \E out \in TranslatorOutcomes :
         IF out.exc # None
         THEN /\ response' = TranslateError(500, "Translation failed: " \o out.exc)
              /\ pc' = "done"
              /\ UNCHANGED << translated_chunks, idx >>
         ELSE /\ translated_chunks' =
                   Append(translated_chunks,
                          Translation(out.kind, chunks[idx], req.target_language))
              /\ idx' = idx + 1
              /\ UNCHANGED << pc, response >>
    /\ UNCHANGED << SCRAPER_API_KEY, PROXY_URL, req, video_id, active_configs,
                    last_error, session, caption_tracks, best_track, best_index,
                    attempts, fetched, chunks, handlers >>

\* main.py:381-384
TranslateReturn ==
    /\ pc = "chunk"
    /\ idx > Len(chunks)
    /\ response' = Translated(translated_chunks, req.target_language)
    /\ pc' = "done"
    /\ UNCHANGED << SCRAPER_API_KEY, PROXY_URL, req, video_id, active_configs, idx,
                    last_error, session, caption_tracks, best_track, best_index,
                    attempts, calls, fetched, chunks, translated_chunks, handlers >>

TranslateNext == TranslateReceive \/ TranslateChunk \/ TranslateReturn

SpecTranslate == TranslateInit /\ [][TranslateNext]_vars

\* the position in the text of the first character of chunk k
RECURSIVE ChunkStart(_)
ChunkStart(k) == IF k = 1 THEN 1 ELSE ChunkStart(k - 1) + Len(chunks[k - 1])

\* the position in the answer of the first character of translated chunk k
RECURSIVE PieceStart(_)
PieceStart(k) == IF k = 1 THEN 1 ELSE PieceStart(k - 1) + Len(translated_chunks[k - 1]) + 1

\* C15: POST /translate splits a text longer than 4500 characters into several
\* consecutive chunks of at most 4500 characters, each starting where the one before
\* ended and the last ending where the text ends; the translator is called once per
\* chunk, in chunk order, and result k is the translation of chunk k; the answer is
\* the results in that order and nothing else but one separating space between two of
\* them, so that with a translator returning its input every chunk, hence every
\* character of the text, stands in the answer in order.
C15_ChunksCoverInOrder ==
    (pc \in {"chunk", "done"} /\ Truthy(req.text) /\ Truthy(req.target_language)) =>
        LET n == Len(chunks)
        IN  /\ n >= 1
            /\ Len(req.text) > chunk_size => n > 1
            /\ \A k \in 1..n :
                 /\ Len(chunks[k]) \in 1..chunk_size
                 /\ chunks[k] = SubSeq(req.text, ChunkStart(k), ChunkStart(k) + Len(chunks[k]) - 1)
            /\ ChunkStart(n) + Len(chunks[n]) - 1 = Len(req.text)
            /\ Len(calls) <= n
            /\ \A k \in 1..Len(calls) : calls[k].chunk = chunks[k]
            /\ Len(translated_chunks) \in {Len(calls), Len(calls) - 1}
            /\ \A k \in 1..Len(translated_chunks) :
                 translated_chunks[k] \in
                     { chunks[k], "[" \o req.target_language \o "] " \o chunks[k] }
            /\ response.status_code \in {0, 200, 500}
            /\ response.status_code = 200 =>
                 /\ Len(translated_chunks) = n
                 /\ PieceStart(n) + Len(translated_chunks[n]) - 1 = Len(response.translated)
                 /\ \A k \in 1..n :
                      SubSeq(response.translated, PieceStart(k),
                             PieceStart(k) + Len(translated_chunks[k]) - 1)
                          = translated_chunks[k]
                 /\ translated_chunks = chunks =>
                      /\ Len(response.translated) = Len(req.text) + n - 1
                      /\ \A k \in 1..n :
                           SubSeq(response.translated, ChunkStart(k) + k - 1,
                                  ChunkStart(k) + k - 2 + Len(chunks[k])) = chunks[k]

\* a text of two full chunks and one character more came back whole, in three chunks
C15_Witness ==
    /\ pc = "done"
    /\ response.status_code = 200
    /\ Len(req.text) = 2 * chunk_size + 1
    /\ Len(chunks) = 3
    /\ Len(chunks[3]) = 1
    /\ chunks[1] # chunks[2]
    /\ translated_chunks = chunks
    /\ Len(response.translated) = 2 * chunk_size + 3


-----------------------------------------------------------------------------
(* Two POST /transcript requests in flight at once, main.py:257-327.  Each  *)
(* call of get_transcript has a frame of its own locals; the steps of the   *)
(* two calls interleave at every network call.  The configuration is the    *)
(* only module-level state the handler reads (main.py:23-24).               *)

RequestIds == { "a", "b" }

\* what one call of fetch_transcript_from_youtube may do: return lines or raise
StrategyOutcomes ==
    { parse_timedtext_json(
          Body("json3", << Event(<<"Hello", "\n", "world">>, 0, 1500) >>, << >>)),
      Raise("YouTube returned 403"),
      Raise("No caption tracks found in page source") }

ConcurrentRequests ==
    { [url |-> "https://www.youtube.com/watch?v=dQw4w9WgXcQ", language |-> "en"],
      [url |-> "https://youtu.be/abc_DEF-123?t=5", language |-> "fr"],
      [url |-> "https://example.com/video", language |-> "en"] }

Frame(r) ==
    [req |-> r, pc |-> "request", video_id |-> None, active_configs |-> << >>,
     idx |-> 0, last_error |-> None, session |-> NoSession, response |-> NoResponse,
     outcomes |-> << >>]

\* last_error as a module-level variable: one slot for every call
LastErrorShared(i) == "a"

\* main.py:289: last_error is a local of the call: the frame it lives in
LastErrorOf(i) == i

ConcurrentInit ==
    /\ SCRAPER_API_KEY \in Keys
    /\ PROXY_URL \in Proxies
    /\ handlers \in [RequestIds -> { Frame(r) : r \in ConcurrentRequests }]
    /\ req = [url |-> "", language |-> ""]
    /\ pc = "concurrent"
    /\ video_id = None
    /\ active_configs = << >>
    /\ idx = 0
    /\ last_error = None
    /\ session = NoSession
    /\ caption_tracks = << >>
    /\ best_track = None
    /\ best_index = 0
    /\ response = NoResponse
    /\ attempts = << >>
    /\ calls = << >>
    /\ fetched = NotFetched
    /\ chunks = << >>
    /\ translated_chunks = << >>

UnchangedButHandlers ==
    UNCHANGED << SCRAPER_API_KEY, PROXY_URL, req, pc, video_id, active_configs, idx,
                 last_error, session, caption_tracks, best_track, best_index,
                 response, attempts, calls, fetched, chunks, translated_chunks >>

\* main.py:258-289 in the frame of call i
HandlerReceive(i) ==
    LET f  == handlers[i]
        id == extract_video_id(f.req.url)
    IN  /\ f.pc = "request"
        /\ handlers' =
             IF Invalid(id)
             THEN [handlers EXCEPT ![i].video_id = id,
                                   ![i].response = HTTPException(400, "Invalid YouTube URL."),
                                   ![i].pc = "done"]
             ELSE [handlers EXCEPT ![i].video_id = id,
                                   ![i].active_configs = ActiveConfigs,
                                   ![i].idx = 1,
                                   ![i].pc = "loop",
                                   ![LastErrorOf(i)].last_error = None]
        /\ UnchangedButHandlers

\* main.py:291-296: the next configuration, its session
HandlerOpenSession(i) ==
    LET f == handlers[i]
    IN  /\ f.pc = "loop"
        /\ f.idx <= Len(f.active_configs)
        /\ handlers' =
             [handlers EXCEPT ![i].session =
                                  get_session(f.active_configs[f.idx].use_scraper,
                                              f.active_configs[f.idx].use_proxy),
                              ![i].pc = "fetch"]
        /\ UnchangedButHandlers

\* main.py:297-313: fetch_transcript_from_youtube returns or raises
HandlerFetch(i) ==
    LET f == handlers[i]
    IN  /\ f.pc = "fetch"
        /\ \E r \in StrategyOutcomes :
             handlers' =
               IF r.ok
               THEN [handlers EXCEPT
                       ![i].response =
                           [status_code |-> 200, detail |-> "", video_id |-> f.video_id,
                            transcript |-> r.lines, full_text |-> r.full_text,
                            word_count |-> WordCount(r.full_text),
                            language |-> f.req.language],
                       ![i].outcomes = Append(f.outcomes, r),
                       ![i].pc = "done"]
               ELSE [handlers EXCEPT
                       ![i].outcomes = Append(f.outcomes, r),
                       ![i].idx = f.idx + 1,
                       ![i].session = NoSession,
                       ![i].pc = "loop",
                       ![LastErrorOf(i)].last_error = r.error]
        /\ UnchangedButHandlers

\* main.py:315-327 in the frame of call i
HandlerExhausted(i) ==
    LET f == handlers[i]
    IN  /\ f.pc = "loop"
        /\ f.idx > Len(f.active_configs)
        /\ handlers' =
             [handlers EXCEPT
                ![i].response =
                    IF IsBlocking(handlers[LastErrorOf(i)].last_error)
                    THEN HTTPException(503, "YouTube is blocking this server. Please try again later.")
                    ELSE HTTPException(404, "No transcript found. This video may not have captions, or may be private/age-restricted."),
                ![i].pc = "done"]
        /\ UnchangedButHandlers

ConcurrentNext ==
    \E i \in RequestIds :
        \/ HandlerReceive(i)
        \/ HandlerOpenSession(i)
        \/ HandlerFetch(i)
        \/ HandlerExhausted(i)

SpecConcurrent == ConcurrentInit /\ [][ConcurrentNext]_vars

\* the other of the two calls
Other(i) == CHOOSE j \in RequestIds : j # i

\* C16: two POST /transcript requests in flight at once are independent, under every
\* interleaving of their steps: a request's strategy list is the configured list, its
\* last_error is the error of its own latest failed strategy, its session is the one
\* of its own current configuration, and its response follows from its own input and
\* its own outcomes; two requests with the same input that met the same outcomes and
\* stand at the same step are in the same state.
C16_RequestsIndependent ==
    \A i \in RequestIds :
        LET f == handlers[i]
            g == handlers[Other(i)]
        IN  /\ f.pc # "request" => f.video_id = extract_video_id(f.req.url)
            /\ f.pc \in {"loop", "fetch"} => f.active_configs = ActiveConfigs
            /\ f.pc \in {"loop", "fetch"} =>
                 /\ \A k \in 1..Len(f.outcomes) : ~f.outcomes[k].ok
                 /\ f.idx = Len(f.outcomes) + 1
                 /\ f.last_error = IF f.outcomes = << >> THEN None
                                   ELSE Last(f.outcomes).error
            /\ f.pc = "fetch" =>
                 f.session = get_session(f.active_configs[f.idx].use_scraper,
                                         f.active_configs[f.idx].use_proxy)
            /\ f.response.status_code = 200 =>
                 /\ Last(f.outcomes).ok
                 /\ f.response.transcript = Last(f.outcomes).lines
                 /\ f.response.video_id = f.video_id
                 /\ f.response.language = f.req.language
            /\ f.response.status_code \in {503, 404} =>
                 /\ Len(f.outcomes) = Len(ActiveConfigs)
                 /\ f.last_error = Last(f.outcomes).error
                 /\ f.response.status_code = 503 <=> IsBlocking(Last(f.outcomes).error)
            /\ (f.req = g.req /\ f.outcomes = g.outcomes /\ f.pc = g.pc) => f = g

\* one request has failed twice and holds the session of its third configuration while
\* the other, with another input, has failed once with another error and waits
C16_Witness ==
    /\ handlers["a"].pc = "fetch"
    /\ handlers["a"].idx = 3
    /\ handlers["a"].last_error = "YouTube returned 403"
    /\ handlers["a"].session.proxies = ""
    /\ handlers["b"].pc = "loop"
    /\ handlers["b"].idx = 2
    /\ handlers["b"].last_error = "No caption tracks found in page source"
    /\ handlers["a"].req # handlers["b"].req


-----------------------------------------------------------------------------
(* Properties of the 200 body of POST /transcript, main.py:302-308 *)

\* the position in full_text of the first character of the text of line k
RECURSIVE LineStart(_)
LineStart(k) ==
    IF k = 1 THEN 1 ELSE LineStart(k - 1) + Len(response.transcript[k - 1].text) + 1

\* the positions of full_text where a whitespace-separated token starts
TokenStarts ==
    { p \in 1..Len(response.full_text) :
        /\ ~IsSpace(Char(response.full_text, p))
        /\ p = 1 \/ IsSpace(Char(response.full_text, p - 1)) }

\* C17: in every 200 answer of POST /transcript full_text is the texts of the returned
\* lines in line order with exactly one space between two of them, and word_count is
\* the number of whitespace-separated tokens of full_text.
C17_FullTextFromLines ==
    response.status_code = 200 =>
        LET n == Len(response.transcript)
        IN  /\ n >= 1
            /\ \A k \in 1..n :
                 SubSeq(response.full_text, LineStart(k),
                        LineStart(k) + Len(response.transcript[k].text) - 1)
                     = response.transcript[k].text
            /\ \A k \in 2..n : Char(response.full_text, LineStart(k) - 1) = " "
            /\ LineStart(n) + Len(response.transcript[n].text) - 1 = Len(response.full_text)
            /\ response.word_count = Cardinality(TokenStarts)

\* three lines, one of them with two spaces inside and one at its end: six words
C17_Witness ==
    /\ response.status_code = 200
    /\ Texts(response.transcript) = << "Bonjour le monde", "two  words ", "&quot;oui&quot;" >>
    /\ response.full_text = "Bonjour le monde two  words  &quot;oui&quot;"
    /\ response.word_count = 6


-----------------------------------------------------------------------------
(* Properties of one page-scrape attempt, main.py:76-159 *)

\* the calls made under the configuration with this label
CallsOf(label) == SelectSeq(calls, LAMBDA c : c.label = label)

Whats(log) == [k \in 1..Len(log) |-> log[k].what]

\* C18: within one page-scrape attempt the timedtext endpoint is called, for the video
\* and the requested language, exactly when the watch page came back 200 and no
\* non-empty caption-track list was extracted from it; an attempt whose timedtext call
\* raised, or was answered with another status or an empty body, fails; an attempt
\* that extracted a track list calls the caption URL at most once and never the
\* timedtext endpoint, whether the caption fetch succeeds or fails.
C18_TimedtextIffNoTracks ==
    [][ /\ pc = "loop" =>
             \* the page step: failed, or on to one of the two methods
             IF attempts' # attempts
             THEN pc' = "loop" /\ Last(calls').what = "page"
             ELSE \/ pc' = "done" /\ calls' = calls
                  \/ pc' = "timedtext" /\ caption_tracks' = << >>
                  \/ pc' = "select" /\ caption_tracks' # << >>
        /\ (calls' # calls /\ Last(calls').what = "timedtext") <=> pc = "timedtext"
        /\ pc = "timedtext" =>
             /\ calls' = Append(calls, [label |-> cfg.label, proxies |-> session.proxies,
                                        what |-> "timedtext", video_id |-> video_id,
                                        lang |-> req.language])
             /\ Last(calls).what = "page" /\ Last(calls).label = cfg.label
             /\ fetched' = NotFetched =>
                  /\ pc' = "loop"
                  /\ Len(attempts') = Len(attempts) + 1
                  /\ ~Last(attempts').succeeded
                  /\ Last(attempts').error \in
                       NetErrors \cup {"No caption tracks found in page source"}
        /\ pc \in {"select", "caption"} =>
             /\ pc' \in {"caption", "loop", "done"}
             /\ calls' = calls \/ Last(calls').what = "caption"
        /\ \A k \in 1..Len(active_configs) :
             Whats(CallsOf(active_configs[k].label)') \in
                 { << >>, << "page" >>, << "page", "timedtext" >>, << "page", "caption" >> }
      ]_vars

\* the first strategy found no track list and its timedtext call failed; the second
\* extracted a list, its caption fetch failed, and the timedtext endpoint was not called
C18_Witness ==
    /\ Whats(calls) = << "page", "timedtext", "page", "caption" >>
    /\ Len(attempts) = 2
    /\ attempts[1].error = "No caption tracks found in page source"
    /\ attempts[2].error = "Caption fetch returned 404"
    /\ calls[2].lang = req.language
    /\ pc = "loop"


-----------------------------------------------------------------------------
(* Properties of the strategy loop as a whole, main.py:268-327 *)

\* C19: the Direct strategy needs no configuration, so it is always the last element
\* of the active list: for a request with a valid video id at least one strategy is
\* attempted, and when POST /transcript ends in a 503 or 404 the Direct strategy was
\* attempted last, last_error is its error (a non-empty text, not None), and the
\* status is decided by that error alone.
C19_DirectDecides ==
    /\ (pc # "request" /\ ~Invalid(video_id)) =>
         /\ active_configs # << >>
         /\ Last(active_configs).label = "Direct"
         /\ \A k \in 1..(Len(active_configs) - 1) : active_configs[k].label # "Direct"
    /\ (pc = "done" /\ ~Invalid(video_id)) => attempts # << >>
    /\ response.status_code \in {503, 404} =>
         /\ Last(attempts).label = "Direct"
         /\ ~Last(attempts).succeeded
         /\ last_error = Last(attempts).error
         /\ Truthy(last_error)
         /\ Last(calls).label = "Direct"
         /\ Last(calls).proxies = ""
         /\ response.status_code = 503 <=> IsBlocking(Last(attempts).error)

\* both proxy strategies were blocked, the Direct one failed otherwise: the answer is 404
C19_Witness ==
    /\ response.status_code = 404
    /\ Len(attempts) = 3
    /\ IsBlocking(attempts[1].error)
    /\ IsBlocking(attempts[2].error)
    /\ attempts[3].label = "Direct"
    /\ ~IsBlocking(attempts[3].error)

\* the handler has answered, with one of the four statuses
Answered == pc = "done" /\ response.status_code \in {200, 400, 404, 503}

\* the handler has not answered and the guard of one of its steps holds
CanStep ==
    /\ response.status_code = 0
    /\ \/ pc = "request"
       \/ pc = "loop" /\ idx \in 1..(Len(active_configs) + 1)
       \/ pc \in {"select", "timedtext", "caption"} /\ idx \in 1..Len(active_configs)

\* how far the handler has come: every step of the handler adds to it
Progress ==
    Len(calls) + Len(attempts)
      + (CASE pc = "request" -> 0 [] pc = "caption" -> 2 [] pc = "done" -> 3 [] OTHER -> 1)

\* C20: POST /transcript always ends, with exactly one of the statuses 200, 400, 404
\* and 503: until it has answered the handler has a next step, every step brings it
\* further and it cannot go further than a fixed number of steps; no answer is 402 or
\* 500; an answer, once given, stays; and every exception raised inside a strategy is
\* recorded as that strategy's failure and leaves the handler in its loop, unanswered.
C20_OnlyFourStatuses ==
    [][ /\ Answered \/ CanStep
        /\ Answered' \/ CanStep'
        /\ ~Answered
        /\ Progress' > Progress
        /\ Progress' <= 3 * Len(session_configs) + 3
        /\ (attempts' # attempts /\ ~Last(attempts').succeeded) =>
             (pc' = "loop" /\ response' = response /\ last_error' = Last(attempts').error)
      ]_vars

\* each of the three strategies raised inside its network call, the last one with a
\* blocking marker in its text, and the handler answered 503
C20_Witness ==
    /\ pc = "done"
    /\ response.status_code = 503
    /\ Len(attempts) = 3
    /\ attempts[1].error = "Read timed out."
    /\ attempts[3].error = "[Errno 24] Too many open files"

=============================================================================
